---- MODULE Spec2Model ----
(***************************************************************************)
(* State-machine model of src/script.js: the selection of coins, the user  *)
(* preferences, their persistence in localStorage, the fetch cycles in     *)
(* flight and the two rendered regions with the compare button.            *)
(*                                                                         *)
(* One action per handler of the script.  A handler runs to completion     *)
(* (single-threaded event loop); the only suspension point is the await in *)
(* loadData, so a fetch cycle is two steps: the issue of the request, made *)
(* inside the step of the handler that calls loadData, and its resolution. *)
(***************************************************************************)
EXTENDS Integers, Sequences, FiniteSets, TLC

\* ------------------------------------------------------------------------
\* Bounds and program constants

\* Identifiers of the coins of the market, in market-cap order.
CoinSeq == <<"bitcoin", "ethereum", "tether", "solana", "cardano", "ripple">>

Coins == {CoinSeq[i] : i \in 1..Len(CoinSeq)}

\* script.js:81  selectedCoins.length < 5
MaxSelected == 5

\* script.js:19
DefaultSort == "market_cap_desc"

\* The values the sort dropdown offers (the <option>s of #sort-dropdown).
SortOrders == {"market_cap_desc", "volume_desc"}

\* What `${userPrefs.sortOrder}` prints when the field is missing.
UndefinedText == "undefined"

\* Requests issued in one session (from the page load on); the cycles in
\* flight at once are bounded by it alone.
MaxIssued == 3

\* Position, in a listing, of the coin whose price_change_percentage_24h the
\* server may report as null.
NullPos == 3

\* ------------------------------------------------------------------------
\* JSON text.  A text is a sequence of tokens; a token is a punctuation
\* mark, one of the literals true/false/null, or a string literal (any other
\* token, standing for the quoted string).

Punct == {"[", "]", ",", "{", "}", ":"}

Literals == {"true", "false", "null"}

IsStringToken(tok) == tok \notin (Punct \cup Literals)

RECURSIVE JoinComma(_)
\* Array.prototype.join / the element lists of JSON.stringify: the parts
\* separated by one comma token.
JoinComma(parts) ==
  IF parts = <<>> THEN <<>>
  ELSE IF Len(parts) = 1 THEN parts[1]
  ELSE parts[1] \o <<",">> \o JoinComma(Tail(parts))

\* JSON.stringify(selectedCoins), script.js:146
StringifyArray(arr) ==
  <<"[">> \o JoinComma([i \in 1..Len(arr) |-> <<arr[i]>>]) \o <<"]">>

BoolToken(b) == IF b THEN "true" ELSE "false"

\* JSON.stringify(userPrefs), script.js:147.  Only the fields the object
\* has are written (show24h first here; the script writes them in the order
\* they were added, and JSON.parse reads either order to the same record).
StringifyPrefs(p) ==
  LET m1 == IF "show24h" \in DOMAIN p
            THEN << <<"show24h", ":", BoolToken(p["show24h"])>> >> ELSE <<>>
      m2 == IF "sortOrder" \in DOMAIN p
            THEN << <<"sortOrder", ":", p["sortOrder"]>> >> ELSE <<>>
  IN <<"{">> \o JoinComma(m1 \o m2) \o <<"}">>

RECURSIVE ParseItems(_)
\* The elements of a JSON array of strings; ok is FALSE on a syntax error.
ParseItems(inner) ==
  IF inner = <<>> THEN [ok |-> TRUE, items |-> <<>>]
  ELSE IF ~IsStringToken(inner[1]) THEN [ok |-> FALSE, items |-> <<>>]
  ELSE IF Len(inner) = 1 THEN [ok |-> TRUE, items |-> <<inner[1]>>]
  ELSE IF inner[2] # "," \/ Len(inner) = 2 THEN [ok |-> FALSE, items |-> <<>>]
  ELSE LET r == ParseItems(SubSeq(inner, 3, Len(inner)))
       IN [ok |-> r.ok, items |-> <<inner[1]>> \o r.items]

\* The value a member's value token denotes.
TokenValue(tok) ==
  IF tok = "true" THEN TRUE ELSE IF tok = "false" THEN FALSE ELSE tok

EmptyObj == [k \in {} |-> TRUE]

RECURSIVE ParseMembers(_)
\* The members of a flat JSON object; a later duplicate key wins.
ParseMembers(inner) ==
  IF inner = <<>> THEN [ok |-> TRUE, obj |-> EmptyObj]
  ELSE IF Len(inner) < 3 THEN [ok |-> FALSE, obj |-> EmptyObj]
  ELSE IF ~IsStringToken(inner[1]) \/ inner[2] # ":"
          \/ inner[3] \in (Punct \cup {"null"})
       THEN [ok |-> FALSE, obj |-> EmptyObj]
  ELSE IF Len(inner) = 3
       THEN [ok |-> TRUE, obj |-> (inner[1] :> TokenValue(inner[3]))]
  ELSE IF inner[4] # "," \/ Len(inner) = 4 THEN [ok |-> FALSE, obj |-> EmptyObj]
  ELSE LET r == ParseMembers(SubSeq(inner, 5, Len(inner)))
       IN [ok |-> r.ok, obj |-> r.obj @@ (inner[1] :> TokenValue(inner[3]))]

\* JSON.parse(text), script.js:13 and 17.  kind is "error" when JSON.parse
\* throws a SyntaxError.
ParseJSON(text) ==
  IF text = <<"null">> THEN [kind |-> "null"]
  ELSE IF Len(text) >= 2 /\ text[1] = "[" /\ text[Len(text)] = "]"
       THEN LET r == ParseItems(SubSeq(text, 2, Len(text) - 1))
            IN IF r.ok THEN [kind |-> "array", items |-> r.items]
               ELSE [kind |-> "error"]
  ELSE IF Len(text) >= 2 /\ text[1] = "{" /\ text[Len(text)] = "}"
       THEN LET r == ParseMembers(SubSeq(text, 2, Len(text) - 1))
            IN IF r.ok THEN [kind |-> "object", obj |-> r.obj]
               ELSE [kind |-> "error"]
  ELSE IF Len(text) = 1 /\ text[1] \notin Punct THEN [kind |-> "scalar"]
  ELSE [kind |-> "error"]

\* JSON.parse(localStorage.getItem(key)): getItem gives null for a key that
\* is not stored, and JSON.parse(null) is null.
LoadKey(store, key) ==
  IF key \in DOMAIN store THEN ParseJSON(store[key]) ELSE [kind |-> "null"]

\* DefaultPrefs with the 24h line on by default.
DefaultPrefs_shown == [show24h |-> TRUE, sortOrder |-> DefaultSort]

\* script.js:17-20, the record used when nothing is stored.
DefaultPrefs == [show24h |-> FALSE, sortOrder |-> DefaultSort]

\* ------------------------------------------------------------------------
\* State

VARIABLES
  phase,              \* "loading": the script has not run yet; "running";
                      \* "crashed": the top-level script threw
  localStorage,       \* the stored keys, each with its text
  selectedCoins,      \* script.js:13
  userPrefs,          \* script.js:17, a record of the fields it has
  show24hChecked,     \* show24hCheckbox.checked
  sortDropdownValue,  \* sortDropdown.value ("" when no option is selected)
  pending,            \* the requests awaiting a response, in issue order,
                      \* each with the state it was issued under
  issued,             \* number of requests issued so far
  cryptoContainer,    \* the cards of the full-list region
  selectedContainer,  \* the cards of the selected region
  compareBtnDisabled, \* compareBtn.disabled
  renderedReq,        \* the order parameter of the request whose response
                      \* was last handed to renderCryptoList ("" if none)
  notice,             \* the alert() shown by the last step
  lastOp,             \* the handler the last step ran, with its outcome
  lastId,             \* the argument of that toggleCoin or removeCoin
  before,             \* selectedCoins before that call (before the first
                      \* of the two calls when lastOp is "toggle2")
  resolved            \* the request the last step resolved, if it did

vars == <<phase, localStorage, selectedCoins, userPrefs, show24hChecked,
          sortDropdownValue, pending, issued, cryptoContainer,
          selectedContainer, compareBtnDisabled, renderedReq, notice, lastOp,
          lastId, before, resolved>>

dom == <<cryptoContainer, selectedContainer, compareBtnDisabled, renderedReq>>

inputs == <<show24hChecked, sortDropdownValue>>

NoNotice == [kind |-> "none", ids |-> <<>>]

\* userPrefs.show24h as a condition: a missing field is undefined, falsy.
Show24h(p) == "show24h" \in DOMAIN p /\ p["show24h"]

\* `${userPrefs.sortOrder}`, script.js:34
OrderText(p) == IF "sortOrder" \in DOMAIN p THEN p["sortOrder"] ELSE UndefinedText

\* A request: the order parameter of its URL (script.js:34), and as history
\* the show24h preference and the selection at the instant it was issued.
Request(sel, prefs) ==
  [order |-> OrderText(prefs), show |-> Show24h(prefs), sel |-> sel]

NoRequest == [order |-> "", show |-> FALSE, sel |-> <<>>]

\* The step ran handler op, which is neither toggleCoin nor removeCoin and
\* resolved no request.
Ran(op) ==
  lastOp' = op /\ lastId' = "" /\ before' = <<>> /\ resolved' = NoRequest

\* The step resolved request req with outcome op.
Resolved(op, req) ==
  lastOp' = op /\ lastId' = "" /\ before' = <<>> /\ resolved' = req

\* ------------------------------------------------------------------------
\* What localStorage may hold when the page is opened.  A key's option is
\* Absent (not stored) or Option(text).

CoinsText(n) == StringifyArray(SubSeq(CoinSeq, 1, n))

Option(text) == <<text>>

Absent == <<>>

StoreOf(s, p) ==
  [k \in (IF s = Absent THEN {} ELSE {"selectedCoins"})
         \cup (IF p = Absent THEN {} ELSE {"userPrefs"})
     |-> IF k = "selectedCoins" THEN s[1] ELSE p[1]]

\* Nothing stored: the first visit.
FreshStorage == StoreOf(Absent, Absent)

\* What updateLocal left in an earlier session that began with nothing
\* stored and ended with the first MaxSelected coins of the market selected.
FullStorage ==
  StoreOf(Option(CoinsText(MaxSelected)), Option(StringifyPrefs(DefaultPrefs)))

OwnStorages == {FreshStorage, FullStorage}

\* Storage this script did not write, or wrote only in part.
ForeignStorages ==
  { StoreOf(Option(CoinsText(MaxSelected)), Absent),
    StoreOf(Option(<<"null">>), Option(<<"null">>)),
    StoreOf(Option(<<"[", "bitcoin">>), Absent),                \* cut short
    StoreOf(Absent, Option(<<"{", "show24h", ":">>)),           \* cut short
    StoreOf(Option(StringifyArray(<<"bitcoin", "bitcoin">>)),   \* not a set
            Option(StringifyPrefs([show24h |-> TRUE, sortOrder |-> "volume_desc"]))),
    StoreOf(Absent, Option(<<"{", "show24h", ":", "true", "}">>)) } \* one field

BootStorages == OwnStorages \cup ForeignStorages

\* The page before its script runs: nothing rendered, no request issued.
\* The compare button is taken to be disabled in the markup.
InitWith(stores) ==
  /\ phase = "loading"
  /\ localStorage \in stores
  /\ selectedCoins = <<>>
  /\ userPrefs = EmptyObj
  /\ show24hChecked = FALSE
  /\ sortDropdownValue = ""
  /\ pending = <<>>
  /\ issued = 0
  /\ cryptoContainer = <<>>
  /\ selectedContainer = <<>>
  /\ compareBtnDisabled = TRUE
  /\ renderedReq = ""
  /\ notice = NoNotice
  /\ lastOp = "open"
  /\ lastId = ""
  /\ before = <<>>
  /\ resolved = NoRequest

\* The page is opened with whatever an earlier session, or anything else
\* with access to the origin's storage, left there.
Init == InitWith(BootStorages)

\* The page is opened with nothing stored, or with what an earlier session
\* that began so has stored.
InitOwn == InitWith(OwnStorages)

\* loadData with the order parameter fixed in the URL.
loadData_fixedOrder(sel, prefs) ==
  /\ issued < MaxIssued
  /\ pending' = Append(pending, Request(sel, DefaultPrefs))
  /\ issued' = issued + 1

\* ------------------------------------------------------------------------
\* loadData, first half (script.js:31-34): the request is issued with the
\* sort order the preferences hold at this instant.
loadData(sel, prefs) ==
  /\ issued < MaxIssued
  /\ pending' = Append(pending, Request(sel, prefs))
  /\ issued' = issued + 1

\* updateLocal without its second setItem: userPrefs is not written.
updateLocal_selectionOnly(sel, prefs) ==
  localStorage' = [k \in DOMAIN localStorage \cup {"selectedCoins"} |->
                     IF k = "selectedCoins" THEN StringifyArray(sel)
                     ELSE localStorage[k]]

\* updateLocal, script.js:145-148
updateLocal(sel, prefs) ==
  localStorage' = [k \in {"selectedCoins", "userPrefs"} |->
                     IF k = "selectedCoins" THEN StringifyArray(sel)
                     ELSE StringifyPrefs(prefs)]

\* JSON.parse(...) || [], script.js:13: the parsed array, or [] for null.
LoadedSelected(parsed) == IF parsed.kind = "array" THEN parsed.items ELSE <<>>

\* JSON.parse(...) || {...}, script.js:17-20: the parsed record as it is
\* (an object is truthy whatever fields it has), or the defaults for null.
LoadedPrefs(parsed) == IF parsed.kind = "object" THEN parsed.obj ELSE DefaultPrefs

\* The top-level script, script.js:13-24 and 174-177.  The stored values
\* considered parse to an array or null (selectedCoins), to an object or
\* null (userPrefs), or do not parse.
Startup ==
  /\ phase = "loading"
  /\ LoadKey(localStorage, "selectedCoins").kind \in {"error", "null", "array"}
  /\ LoadKey(localStorage, "userPrefs").kind \in {"error", "null", "object"}
  /\ LET ps == LoadKey(localStorage, "selectedCoins")
         pp == LoadKey(localStorage, "userPrefs")
     IN IF ps.kind = "error" \/ pp.kind = "error"
        THEN \* JSON.parse throws: the script stops at that line, before
             \* the listeners, the first loadData and the timer.
             /\ phase' = "crashed"
             /\ selectedCoins' = IF ps.kind = "error" THEN selectedCoins
                                 ELSE LoadedSelected(ps)
             /\ Ran("crash")
             /\ UNCHANGED <<userPrefs, inputs, pending, issued>>
        ELSE /\ phase' = "running"
             /\ selectedCoins' = LoadedSelected(ps)
             /\ userPrefs' = LoadedPrefs(pp)
             /\ show24hChecked' = Show24h(LoadedPrefs(pp))
             /\ sortDropdownValue' =
                  IF OrderText(LoadedPrefs(pp)) \in SortOrders
                  THEN OrderText(LoadedPrefs(pp)) ELSE ""
             /\ loadData(LoadedSelected(ps), LoadedPrefs(pp))
             /\ Ran("startup")
  /\ notice' = NoNotice
  /\ UNCHANGED <<localStorage, dom>>

\* ------------------------------------------------------------------------
\* The selection

\* selectedCoins.includes(id)
Includes(sel, id) == \E i \in 1..Len(sel) : sel[i] = id

\* Without, as splice(indexOf(id), 1) would do it: the first occurrence
\* goes, and with id absent indexOf is -1 and the last element goes.
Without_splice(sel, id) ==
  IF Includes(sel, id)
  THEN LET k == CHOOSE i \in 1..Len(sel) :
                  sel[i] = id /\ \A j \in 1..(i - 1) : sel[j] # id
       IN SubSeq(sel, 1, k - 1) \o SubSeq(sel, k + 1, Len(sel))
  ELSE SubSeq(sel, 1, Len(sel) - 1)

\* selectedCoins.filter(c => c !== id), script.js:80 and 134
Without(sel, id) == SelectSeq(sel, LAMBDA c : c # id)

\* The alert branch of toggleCoin, script.js:84-87
Rejected(sel, id) == ~Includes(sel, id) /\ ~(Len(sel) < MaxSelected)

\* Toggled with the capacity test off by one (<= for <).
Toggled_offByOne(sel, id) ==
  IF Includes(sel, id) THEN Without(sel, id)
  ELSE IF Len(sel) <= MaxSelected THEN Append(sel, id)
  ELSE sel

\* Toggled with unshift for push: a new coin goes to the front.
Toggled_unshift(sel, id) ==
  IF Includes(sel, id) THEN Without(sel, id)
  ELSE IF Len(sel) < MaxSelected THEN <<id>> \o sel
  ELSE sel

\* Toggled making room at capacity by dropping the oldest coin.
Toggled_dropOldest(sel, id) ==
  IF Includes(sel, id) THEN Without(sel, id)
  ELSE IF Len(sel) < MaxSelected THEN Append(sel, id)
  ELSE Append(Tail(sel), id)

\* The selection toggleCoin leaves, script.js:78-87
Toggled(sel, id) ==
  IF Includes(sel, id) THEN Without(sel, id)
  ELSE IF Len(sel) < MaxSelected THEN Append(sel, id)
  ELSE sel

\* The identifiers of the cards of a region.
CardIds(cards) == {cards[i].id : i \in 1..Len(cards)}

CapacityNotice == [kind |-> "capacity", ids |-> <<>>]

\* script.js:168
CompareNotice(sel) == [kind |-> "compare", ids |-> sel]

\* toggleCoin(id), script.js:77-94; called by a click on the card of coin
\* id in the full-list region (script.js:65).
toggleCoin(id) ==
  /\ phase = "running"
  /\ id \in CardIds(cryptoContainer)
  /\ selectedCoins' = Toggled(selectedCoins, id)
  /\ notice' = IF Rejected(selectedCoins, id) THEN CapacityNotice ELSE NoNotice
  /\ lastOp' = IF Rejected(selectedCoins, id) THEN "reject"
               ELSE IF lastOp = "toggle" /\ lastId = id THEN "toggle2"
               ELSE "toggle"
  /\ lastId' = id
  /\ before' = IF lastOp' = "toggle2" THEN before ELSE selectedCoins
  /\ updateLocal(selectedCoins', userPrefs)
  /\ resolved' = NoRequest
  /\ loadData(selectedCoins', userPrefs)
  /\ UNCHANGED <<phase, userPrefs, inputs, dom>>

\* removeCoin(id), script.js:132-139; called by the Remove button of the
\* card of coin id in the selected region (script.js:116).
removeCoin(id) ==
  /\ phase = "running"
  /\ id \in CardIds(selectedContainer)
  /\ selectedCoins' = Without(selectedCoins, id)
  /\ notice' = NoNotice
  /\ lastOp' = "remove"
  /\ lastId' = id
  /\ before' = selectedCoins
  /\ updateLocal(selectedCoins', userPrefs)
  /\ resolved' = NoRequest
  /\ loadData(selectedCoins', userPrefs)
  /\ UNCHANGED <<phase, userPrefs, inputs, dom>>

\* ------------------------------------------------------------------------
\* The preferences

\* userPrefs.show24h = show24hCheckbox.checked, script.js:154
WithShow24h(p, b) ==
  [k \in DOMAIN p \cup {"show24h"} |-> IF k = "show24h" THEN b ELSE p[k]]

\* userPrefs.sortOrder = sortDropdown.value, script.js:161
WithSortOrder(p, o) ==
  [k \in DOMAIN p \cup {"sortOrder"} |-> IF k = "sortOrder" THEN o ELSE p[k]]

\* The change listener of the checkbox, script.js:153-157: the user has
\* flipped the box.
show24hChange ==
  /\ phase = "running"
  /\ show24hChecked' = ~show24hChecked
  /\ userPrefs' = WithShow24h(userPrefs, show24hChecked')
  /\ notice' = NoNotice
  /\ Ran("show24h")
  /\ updateLocal(selectedCoins, userPrefs')
  /\ loadData(selectedCoins, userPrefs')
  /\ UNCHANGED <<phase, selectedCoins, sortDropdownValue, dom>>

\* The change listener of the dropdown, script.js:160-164: the user has
\* picked another option.
sortChange(o) ==
  /\ phase = "running"
  /\ o # sortDropdownValue
  /\ sortDropdownValue' = o
  /\ userPrefs' = WithSortOrder(userPrefs, sortDropdownValue')
  /\ notice' = NoNotice
  /\ Ran("sort")
  /\ updateLocal(selectedCoins, userPrefs')
  /\ loadData(selectedCoins, userPrefs')
  /\ UNCHANGED <<phase, selectedCoins, show24hChecked, dom>>

\* compareClick that also empties the selection once it is compared.
compareClick_clearsSelection ==
  /\ phase = "running"
  /\ ~compareBtnDisabled
  /\ notice' = CompareNotice(selectedCoins)
  /\ selectedCoins' = <<>>
  /\ Ran("compare")
  /\ UNCHANGED <<phase, localStorage, userPrefs, inputs, pending, issued, dom>>

\* The click listener of the compare button, script.js:167-169; a disabled
\* button dispatches no click.
compareClick ==
  /\ phase = "running"
  /\ ~compareBtnDisabled
  /\ notice' = CompareNotice(selectedCoins)
  /\ Ran("compare")
  /\ UNCHANGED <<phase, localStorage, selectedCoins, userPrefs, inputs,
                 pending, issued, dom>>

\* timerTick skipping the tick while a cycle is still in flight.
timerTick_whenIdle ==
  /\ phase = "running"
  /\ pending = <<>>
  /\ loadData(selectedCoins, userPrefs)
  /\ notice' = NoNotice
  /\ Ran("tick")
  /\ UNCHANGED <<phase, localStorage, selectedCoins, userPrefs, inputs, dom>>

\* setInterval(loadData, 60000), script.js:177
timerTick ==
  /\ phase = "running"
  /\ loadData(selectedCoins, userPrefs)
  /\ notice' = NoNotice
  /\ Ran("tick")
  /\ UNCHANGED <<phase, localStorage, selectedCoins, userPrefs, inputs, dom>>

\* ------------------------------------------------------------------------
\* The market, and loadData's second half

Reverse(seq) == [i \in 1..Len(seq) |-> seq[Len(seq) + 1 - i]]

\* The identifiers the endpoint lists for an order parameter; a parameter
\* it does not know gets its default listing.
Listing(order) == IF order = "volume_desc" THEN Reverse(CoinSeq) ELSE CoinSeq

\* A response body: the coins of the listing, the one at nullAt (if any)
\* with a null price_change_percentage_24h.
Response(order, nullAt) ==
  [i \in 1..Len(Listing(order)) |->
     [id |-> Listing(order)[i], chgNull |-> (i = nullAt)]]

\* RenderCards with the 24h line on every card, whatever the preference.
RenderCards_always24h(coins, show) ==
  LET bad == {i \in 1..Len(coins) : coins[i].chgNull}
      n == IF bad = {} THEN Len(coins)
           ELSE (CHOOSE i \in bad : \A j \in bad : i <= j) - 1
  IN [cards |-> [i \in 1..n |-> [id |-> coins[i].id, chg |-> TRUE]],
      threw |-> bad # {}]

\* The cards a forEach over coins appends (script.js:52-69, 107-121): with
\* the 24h line shown, null.toFixed throws at the first coin whose change
\* is null, after the cards of the coins before it were appended.
RenderCards(coins, show) ==
  LET bad == {i \in 1..Len(coins) : show /\ coins[i].chgNull}
      n == IF bad = {} THEN Len(coins)
           ELSE (CHOOSE i \in bad : \A j \in bad : i <= j) - 1
  IN [cards |-> [i \in 1..n |-> [id |-> coins[i].id, chg |-> show]],
      threw |-> bad # {}]

\* SelectedData without the filter: every fetched coin gets a card.
SelectedData_unfiltered(coins, sel) == coins

\* coins.filter(c => selectedCoins.includes(c.id)), script.js:104
SelectedData(coins, sel) == SelectSeq(coins, LAMBDA c : Includes(sel, c.id))

\* CompareDisabled with the comparison inverted (=== for !==).
CompareDisabled_inverted(sel) == Len(sel) = MaxSelected

\* compareBtn.disabled = selectedCoins.length !== 5, script.js:124
CompareDisabled(sel) == Len(sel) # MaxSelected

RemoveAt(seq, i) == SubSeq(seq, 1, i - 1) \o SubSeq(seq, i + 1, Len(seq))

\* fetchFails with a catch that empties both regions and shows a notice.
fetchFails_reported(i) ==
  /\ phase = "running"
  /\ i \in 1..Len(pending)
  /\ pending' = RemoveAt(pending, i)
  /\ cryptoContainer' = <<>>
  /\ selectedContainer' = <<>>
  /\ notice' = [kind |-> "error", ids |-> <<>>]
  /\ Resolved("fetchFail", pending[i])
  /\ UNCHANGED <<phase, localStorage, selectedCoins, userPrefs, inputs,
                 issued, compareBtnDisabled, renderedReq>>

\* The fetch or res.json() of cycle i rejects (script.js:34, 37): loadData
\* rejects and nothing is rendered.
fetchFails(i) ==
  /\ phase = "running"
  /\ i \in 1..Len(pending)
  /\ pending' = RemoveAt(pending, i)
  /\ notice' = NoNotice
  /\ Resolved("fetchFail", pending[i])
  /\ UNCHANGED <<phase, localStorage, selectedCoins, userPrefs, inputs,
                 issued, dom>>

\* Cycle i's response parses to something that is not an array (an error
\* object): renderCryptoList clears the region, then coins.forEach throws.
respondsNotArray(i) ==
  /\ phase = "running"
  /\ i \in 1..Len(pending)
  /\ pending' = RemoveAt(pending, i)
  /\ cryptoContainer' = <<>>
  /\ renderedReq' = pending[i].order
  /\ notice' = NoNotice
  /\ Resolved("notArray", pending[i])
  /\ UNCHANGED <<phase, localStorage, selectedCoins, userPrefs, inputs,
                 issued, selectedContainer, compareBtnDisabled>>

\* respondsCoins filtering the selected region by the selection as it was
\* when the request was issued.
respondsCoins_selectionAtIssue(i, nullAt) ==
  /\ phase = "running"
  /\ i \in 1..Len(pending)
  /\ pending' = RemoveAt(pending, i)
  /\ LET coins == Response(pending[i].order, nullAt)
         list == RenderCards(coins, Show24h(userPrefs))
         sel == RenderCards(SelectedData(coins, pending[i].sel), Show24h(userPrefs))
     IN /\ cryptoContainer' = list.cards
        /\ renderedReq' = pending[i].order
        /\ IF list.threw
           THEN /\ Resolved("renderThrow", pending[i])
                /\ UNCHANGED <<selectedContainer, compareBtnDisabled>>
           ELSE /\ selectedContainer' = sel.cards
                /\ IF sel.threw
                   THEN /\ Resolved("renderThrow", pending[i])
                        /\ UNCHANGED compareBtnDisabled
                   ELSE /\ Resolved("render", pending[i])
                        /\ compareBtnDisabled' = CompareDisabled(selectedCoins)
  /\ notice' = NoNotice
  /\ UNCHANGED <<phase, localStorage, selectedCoins, userPrefs, inputs, issued>>

\* respondsCoins with a generation guard: the response of a request that is
\* not the newest one in flight is dropped without rendering.
respondsCoins_newestOnly(i, nullAt) ==
  /\ phase = "running"
  /\ i \in 1..Len(pending)
  /\ pending' = RemoveAt(pending, i)
  /\ LET coins == Response(pending[i].order, nullAt)
         list == RenderCards(coins, Show24h(userPrefs))
         sel == RenderCards(SelectedData(coins, selectedCoins), Show24h(userPrefs))
     IN IF i < Len(pending)
        THEN /\ Resolved("render", pending[i])
             /\ UNCHANGED dom
        ELSE /\ cryptoContainer' = list.cards
             /\ renderedReq' = pending[i].order
             /\ IF list.threw
                THEN /\ Resolved("renderThrow", pending[i])
                     /\ UNCHANGED <<selectedContainer, compareBtnDisabled>>
                ELSE /\ selectedContainer' = sel.cards
                     /\ IF sel.threw
                        THEN /\ Resolved("renderThrow", pending[i])
                             /\ UNCHANGED compareBtnDisabled
                        ELSE /\ Resolved("render", pending[i])
                             /\ compareBtnDisabled' = CompareDisabled(selectedCoins)
  /\ notice' = NoNotice
  /\ UNCHANGED <<phase, localStorage, selectedCoins, userPrefs, inputs, issued>>

\* Cycle i's response is an array of coins: renderCryptoList(coins), then
\* renderSelected(coins), script.js:37-41, both with the selection and the
\* preferences as they are now.
respondsCoins(i, nullAt) ==
  /\ phase = "running"
  /\ i \in 1..Len(pending)
  /\ pending' = RemoveAt(pending, i)
  /\ LET coins == Response(pending[i].order, nullAt)
         list == RenderCards(coins, Show24h(userPrefs))
         sel == RenderCards(SelectedData(coins, selectedCoins), Show24h(userPrefs))
     IN /\ cryptoContainer' = list.cards
        /\ renderedReq' = pending[i].order
        /\ IF list.threw
           THEN /\ Resolved("renderThrow", pending[i])
                /\ UNCHANGED <<selectedContainer, compareBtnDisabled>>
           ELSE /\ selectedContainer' = sel.cards
                /\ IF sel.threw
                   THEN /\ Resolved("renderThrow", pending[i])
                        /\ UNCHANGED compareBtnDisabled
                   ELSE /\ Resolved("render", pending[i])
                        /\ compareBtnDisabled' = CompareDisabled(selectedCoins)
  /\ notice' = NoNotice
  /\ UNCHANGED <<phase, localStorage, selectedCoins, userPrefs, inputs, issued>>

\* ------------------------------------------------------------------------
Next ==
  \/ Startup
  \/ \E id \in Coins : toggleCoin(id)
  \/ \E id \in Coins : removeCoin(id)
  \/ show24hChange
  \/ \E o \in SortOrders : sortChange(o)
  \/ compareClick
  \/ timerTick
  \/ \E i \in 1..MaxIssued : fetchFails(i)
  \/ \E i \in 1..MaxIssued : respondsNotArray(i)
  \/ \E i \in 1..MaxIssued, nullAt \in {0, NullPos} : respondsCoins(i, nullAt)

\* The request at position i of those in flight settles, one way or another.
Settles(i) ==
  \/ fetchFails(i)
  \/ respondsNotArray(i)
  \/ \E nullAt \in {0, NullPos} : respondsCoins(i, nullAt)

\* What the platform guarantees to the script: it is run once the page is
\* loaded, the interval timer fires (script.js:177), and every fetch
\* settles, so the continuation of its loadData call runs (script.js:34-41).
Fairness ==
  /\ WF_vars(Startup)
  /\ WF_vars(timerTick)
  /\ \A i \in 1..MaxIssued : WF_vars(Settles(i))

Spec == Init /\ [][Next]_vars

SpecOwn == InitOwn /\ [][Next]_vars

\* The same runs as Spec, under what the platform guarantees.
SpecFair == Init /\ [][Next]_vars /\ Fairness

\* ------------------------------------------------------------------------
\* Properties

NoDuplicates(seq) == \A i, j \in 1..Len(seq) : i # j => seq[i] # seq[j]

RECURSIVE DeleteAll(_, _)
\* seq with every occurrence of id deleted, the rest in their order.
DeleteAll(seq, id) ==
  IF seq = <<>> THEN <<>>
  ELSE IF seq[1] = id THEN DeleteAll(Tail(seq), id)
  ELSE <<seq[1]>> \o DeleteAll(Tail(seq), id)

\* The handlers that end with updateLocal.
MutatingOps == {"toggle", "toggle2", "reject", "remove", "show24h", "sort"}

\* C1: in a session that starts from empty storage, or from what such a
\* session stored, selectedCoins never has more than 5 elements and never
\* holds an identifier twice.
C1_AtMostFiveNoDuplicate ==
  Len(selectedCoins) <= 5 /\ NoDuplicates(selectedCoins)

\* A toggleCoin call was turned down for capacity with 5 coins selected.
C1_Witness ==
  lastOp = "reject" /\ Len(selectedCoins) = 5 /\ NoDuplicates(selectedCoins)

\* C2 as stated: after two toggleCoin(id) calls in succession, neither
\* turned down, selectedCoins is the sequence it was before the first.
C2_Original == lastOp = "toggle2" => selectedCoins = before

\* C2 amended: after two such calls selectedCoins is the prior sequence when
\* id was not in it, and the prior sequence with id deleted and then
\* appended at the end when id was in it.
C2_ToggleTwice ==
  lastOp = "toggle2" =>
    selectedCoins = IF Includes(before, lastId)
                    THEN Append(DeleteAll(before, lastId), lastId)
                    ELSE before

\* Two calls on an identifier that was selected, and not last, moved it.
C2_Witness ==
  lastOp = "toggle2" /\ Includes(before, lastId) /\ selectedCoins # before

\* C3: after every handler that mutates (a toggleCoin, turned down or not,
\* a removeCoin, the two change listeners) the startup load of the two
\* stored keys gives the selection and the preferences held in memory.
C3_RoundTrip ==
  lastOp \in MutatingOps =>
    LET ps == LoadKey(localStorage, "selectedCoins")
        pp == LoadKey(localStorage, "userPrefs")
    IN /\ ps.kind = "array" /\ ps.items = selectedCoins
       /\ pp.kind = "object" /\ pp.obj = userPrefs
       /\ LoadedSelected(ps) = selectedCoins
       /\ LoadedPrefs(pp) = userPrefs

\* The sort listener stored a selection of several coins and preferences
\* that are not the defaults.
C3_Witness ==
  /\ lastOp = "sort"
  /\ Len(selectedCoins) >= 2
  /\ Show24h(userPrefs)
  /\ localStorage["selectedCoins"] = StringifyArray(selectedCoins)

\* C4: whenever the compare button is enabled, 5 coins are selected (so the
\* compare notice names five identifiers).
C4_EnabledMeansFive ==
  (phase = "running" /\ ~compareBtnDisabled) => Len(selectedCoins) = 5

\* C5: when renderSelected has just completed, the compare button is enabled
\* exactly if selectedCoins has 5 elements now.
C5_RenderSetsCompare ==
  lastOp = "render" => (~compareBtnDisabled <=> Len(selectedCoins) = 5)

\* A render that enabled the button.
C5_Witness ==
  lastOp = "render" /\ ~compareBtnDisabled /\ Len(selectedCoins) = 5

\* C6 as stated: a toggleCoin(id) with 5 coins selected and id not among
\* them shows the capacity notice and leaves the selection, the preferences
\* and the stored text of both keys as they were.
C6_Original ==
  [][\A id \in Coins :
       (toggleCoin(id) /\ Len(selectedCoins) = 5 /\ ~Includes(selectedCoins, id))
       => /\ notice' = [kind |-> "capacity", ids |-> <<>>]
          /\ selectedCoins' = selectedCoins
          /\ userPrefs' = userPrefs
          /\ localStorage' = localStorage]_vars

\* C6 amended: such a call shows the capacity notice, leaves the selection
\* and the preferences as they were, and leaves both keys stored with the
\* serialisation of that selection and those preferences.
C6_RejectKeepsState ==
  [][\A id \in Coins :
       (toggleCoin(id) /\ Len(selectedCoins) = 5 /\ ~Includes(selectedCoins, id))
       => /\ notice' = [kind |-> "capacity", ids |-> <<>>]
          /\ selectedCoins' = selectedCoins
          /\ userPrefs' = userPrefs
          /\ DOMAIN localStorage' = {"selectedCoins", "userPrefs"}
          /\ localStorage'["selectedCoins"] = StringifyArray(selectedCoins)
          /\ localStorage'["userPrefs"] = StringifyPrefs(userPrefs)]_vars

\* A sixth coin was turned down.
C6_Witness ==
  /\ lastOp = "reject"
  /\ notice.kind = "capacity"
  /\ Len(selectedCoins) = 5
  /\ ~Includes(selectedCoins, lastId)

\* The stored value of a key is not JSON, or not of the shape of section 3
\* (a duplicate-free array of at most 5 identifiers; a record with both
\* fields).
MalformedSelected(store) ==
  /\ "selectedCoins" \in DOMAIN store
  /\ LET ps == ParseJSON(store["selectedCoins"])
     IN \/ ps.kind # "array"
        \/ ps.kind = "array" /\ ~(Len(ps.items) <= 5 /\ NoDuplicates(ps.items))

MalformedPrefs(store) ==
  /\ "userPrefs" \in DOMAIN store
  /\ LET pp == ParseJSON(store["userPrefs"])
     IN \/ pp.kind # "object"
        \/ pp.kind = "object" /\ DOMAIN pp.obj # {"show24h", "sortOrder"}

\* C7: when the top-level script has run on storage with a malformed value,
\* the default stands in for that value, the first request has been issued
\* and no notice was shown.
C7_MalformedGetsDefault ==
  (lastOp \in {"startup", "crash"}
     /\ (MalformedSelected(localStorage) \/ MalformedPrefs(localStorage)))
  => /\ phase = "running"
     /\ issued = 1 /\ Len(pending) = 1
     /\ notice.kind = "none"
     /\ MalformedSelected(localStorage) => selectedCoins = <<>>
     /\ MalformedPrefs(localStorage) =>
          userPrefs = [show24h |-> FALSE, sortOrder |-> "market_cap_desc"]

\* C8: once the script runs, the preferences have both fields, show24h a
\* boolean and sortOrder one of the tokens.
C8_BothFields ==
  phase = "running" =>
    /\ DOMAIN userPrefs = {"show24h", "sortOrder"}
    /\ userPrefs["show24h"] \in BOOLEAN
    /\ userPrefs["sortOrder"] \in SortOrders

\* C9: right after startup with neither key stored the selection is empty,
\* the preferences are the defaults and the one request issued carries
\* order=market_cap_desc.
C9_FreshStartup ==
  (lastOp = "startup" /\ DOMAIN localStorage = {}) =>
    /\ selectedCoins = <<>>
    /\ userPrefs = [show24h |-> FALSE, sortOrder |-> "market_cap_desc"]
    /\ Len(pending) = 1 /\ pending[1].order = "market_cap_desc"
    /\ issued = 1

\* The script has just run on empty storage.
C9_Witness ==
  lastOp = "startup" /\ DOMAIN localStorage = {} /\ phase = "running"

\* C10: removeCoin(id) leaves the prior sequence with id deleted and the
\* others in their order, and leaves it unchanged when id was not in it.
C10_RemoveDeletes ==
  lastOp = "remove" =>
    /\ selectedCoins = DeleteAll(before, lastId)
    /\ ~Includes(before, lastId) => selectedCoins = before

\* A removal from the middle of the selection.
C10_Witness ==
  /\ lastOp = "remove"
  /\ Len(before) >= 3
  /\ before[1] # lastId /\ before[Len(before)] # lastId
  /\ Includes(before, lastId)

\* No card of the region has the 24h line.
No24hLine(cards) == \A k \in 1..Len(cards) : ~cards[k].chg

\* C11: a render pass that runs while show24h is false leaves no card with
\* the 24h line in the regions it rendered (both when it completed, the full
\* list when renderCryptoList threw on a body that is no array), whatever
\* show24h was when its request was issued.
C11_No24hWhenOff ==
  (resolved # NoRequest /\ ~Show24h(userPrefs)) =>
    /\ lastOp \in {"render", "renderThrow", "notArray"}
         => No24hLine(cryptoContainer)
    /\ lastOp = "render" => No24hLine(selectedContainer)

\* A pass that rendered both regions with show24h false for a request that
\* was issued while show24h was true.
C11_Witness ==
  /\ lastOp = "render"
  /\ resolved.show /\ ~Show24h(userPrefs)
  /\ cryptoContainer # <<>> /\ selectedContainer # <<>>
  /\ No24hLine(cryptoContainer) /\ No24hLine(selectedContainer)

\* C12: right after the sort listener ran, the dropdown's token is the
\* sortOrder of the preferences, of the stored userPrefs record and of the
\* request the listener issued; and every step that issues a request
\* appends one whose order parameter is the sortOrder the preferences hold
\* as that step leaves them.
C12_FetchUsesCurrentOrder ==
  /\ [](lastOp = "sort" =>
          /\ OrderText(userPrefs) = sortDropdownValue
          /\ LoadKey(localStorage, "userPrefs").kind = "object"
          /\ OrderText(LoadKey(localStorage, "userPrefs").obj) = sortDropdownValue
          /\ pending # <<>>
          /\ pending[Len(pending)].order = sortDropdownValue)
  /\ [][issued' # issued =>
          /\ Len(pending') = Len(pending) + 1
          /\ SubSeq(pending', 1, Len(pending)) = pending
          /\ pending'[Len(pending')].order = OrderText(userPrefs')]_vars

\* The sort listener set volume_desc and issued its request while a request
\* made with market_cap_desc was still awaiting its response.
C12_Witness ==
  /\ lastOp = "sort"
  /\ sortDropdownValue = "volume_desc"
  /\ Len(pending) >= 2
  /\ pending[Len(pending)].order = "volume_desc"
  /\ pending[1].order = "market_cap_desc"

\* The identifiers of the cards of a region, in their order.
IdsOf(cards) == [k \in 1..Len(cards) |-> cards[k].id]

\* C13: whichever request in flight a step resolves with a response body,
\* the full-list region then holds cards of that request's listing and of no
\* other (all of them, in its order, when the pass completed); so once
\* nothing is in flight the region shows the response that resolved last,
\* whatever the order of issue.
C13_LastResolvedWins ==
  [][\A i \in 1..Len(pending) :
       (pending' = RemoveAt(pending, i) /\ issued' = issued
          /\ lastOp' \in {"render", "renderThrow", "notArray"})
       => /\ resolved' = pending[i]
          /\ Len(cryptoContainer') <= Len(Listing(pending[i].order))
          /\ IdsOf(cryptoContainer')
               = SubSeq(Listing(pending[i].order), 1, Len(cryptoContainer'))
          /\ lastOp' = "render"
               => IdsOf(cryptoContainer') = Listing(pending[i].order)]_vars

\* Two requests issued, none in flight: the first (market_cap_desc, from
\* startup) resolved last, after the one the sort listener issued with
\* volume_desc, and the region shows the market_cap_desc listing.
C13_Witness ==
  /\ lastOp = "render"
  /\ issued = 2 /\ pending = <<>>
  /\ OrderText(userPrefs) = "volume_desc"
  /\ resolved.order = "market_cap_desc"
  /\ IdsOf(cryptoContainer) = Listing("market_cap_desc")
  /\ Listing("market_cap_desc") # Listing("volume_desc")

\* C14: the step in which a cycle's fetch or response parse fails leaves
\* both regions, the compare button, the selection, the preferences and the
\* storage as they were and shows no notice; the script keeps running, the
\* other requests stay in flight, and the timer and the handlers start
\* cycles after it as before.
C14_FailureChangesNothing ==
  /\ [][lastOp' = "fetchFail" =>
          /\ cryptoContainer' = cryptoContainer
          /\ selectedContainer' = selectedContainer
          /\ compareBtnDisabled' = compareBtnDisabled
          /\ notice'.kind = "none"
          /\ selectedCoins' = selectedCoins
          /\ userPrefs' = userPrefs
          /\ localStorage' = localStorage
          /\ phase' = "running"
          /\ issued' = issued
          /\ \E i \in 1..Len(pending) : pending' = RemoveAt(pending, i)]_vars
  /\ []((lastOp = "fetchFail" /\ issued < MaxIssued) =>
          /\ ENABLED timerTick
          /\ ENABLED show24hChange
          /\ \A id \in CardIds(cryptoContainer) : ENABLED toggleCoin(id)
          /\ \A id \in CardIds(selectedContainer) : ENABLED removeCoin(id))

\* A cycle failed with both regions rendered and the compare button
\* enabled, and with requests left to issue.
C14_Witness ==
  /\ lastOp = "fetchFail"
  /\ resolved # NoRequest
  /\ cryptoContainer # <<>> /\ selectedContainer # <<>>
  /\ ~compareBtnDisabled
  /\ issued < MaxIssued

\* The steps that call loadData: the top-level script, the timer, and the
\* handlers.
TriggerOps == {"startup", "tick"} \cup MutatingOps

\* C15: every step of a trigger (startup, a tick, a toggleCoin turned down
\* or not, a removeCoin with or without effect, a change of a preference)
\* issues exactly one request, appended to those in flight, which all stay;
\* a step of a handler has by then stored the selection and the preferences
\* it leaves; no other step issues a request; and while requests remain to
\* issue the timer tick is enabled whatever is in flight.
C15_OneCyclePerTrigger ==
  /\ [][(lastOp' \in TriggerOps) =>
          (/\ issued' = issued + 1
           /\ pending' = Append(pending, Request(selectedCoins', userPrefs')))]_vars
  /\ [][(lastOp' \in MutatingOps) =>
          (/\ DOMAIN localStorage' = {"selectedCoins", "userPrefs"}
           /\ localStorage'["selectedCoins"] = StringifyArray(selectedCoins')
           /\ localStorage'["userPrefs"] = StringifyPrefs(userPrefs'))]_vars
  /\ [][(issued' # issued) => (lastOp' \in TriggerOps)]_vars
  /\ []((phase = "running" /\ issued < MaxIssued) => ENABLED timerTick)

\* A tick issued a request with two others in flight.
C15_Witness ==
  /\ lastOp = "tick"
  /\ Len(pending) >= 3

\* C16: after every cycle whose fetch resolved with a list of coins, the
\* full-list region holds one card per fetched coin, the selected region
\* holds the fetched coins that are selected and the compare button is set
\* from the selection, also with show24h true and a null 24h change.
C16_FullRebuild ==
  (resolved # NoRequest /\ lastOp \in {"render", "renderThrow"})
  => /\ IdsOf(cryptoContainer) = Listing(resolved.order)
     /\ IdsOf(selectedContainer)
          = SelectSeq(Listing(resolved.order), LAMBDA c : Includes(selectedCoins, c))
     /\ compareBtnDisabled = CompareDisabled(selectedCoins)

\* The outcomes of toggleCoin and removeCoin, and of the two listeners.
SelectionOps == {"toggle", "toggle2", "reject", "remove"}

PreferenceOps == {"show24h", "sort"}

\* C17: once the script runs, a step changes selectedCoins only if it is a
\* toggleCoin or a removeCoin, and userPrefs only if it is one of the two
\* change listeners: ticks, resolutions of a request (rendered, thrown or
\* failed) and the compare click change neither, toggleCoin and removeCoin
\* leave userPrefs alone and the listeners leave selectedCoins alone.
C17_OnlyHandlersMutate ==
  [][phase = "running" =>
       /\ (selectedCoins' # selectedCoins) => (lastOp' \in SelectionOps \ {"reject"})
       /\ (userPrefs' # userPrefs) => (lastOp' \in PreferenceOps)
       /\ (lastOp' \notin SelectionOps \cup PreferenceOps)
            => (selectedCoins' = selectedCoins /\ userPrefs' = userPrefs)
       /\ (lastOp' \in SelectionOps) => (userPrefs' = userPrefs)
       /\ (lastOp' \in PreferenceOps) => (selectedCoins' = selectedCoins)]_vars

\* The compare click named the five selected coins and left them selected.
C17_Witness ==
  /\ lastOp = "compare"
  /\ notice.kind = "compare"
  /\ Len(selectedCoins) = 5
  /\ notice.ids = selectedCoins

\* C18: right after a renderSelected call that completed, the selected
\* region holds, in the response's order, the cards of exactly the coins of
\* that response that are in selectedCoins now; a coin that was selected
\* when the request was issued and is no longer has no card there.
C18_SelectedRegionIsCurrent ==
  lastOp = "render" =>
    /\ IdsOf(selectedContainer)
         = SelectSeq(Listing(resolved.order), LAMBDA c : Includes(selectedCoins, c))
    /\ \A id \in Coins :
         (Includes(resolved.sel, id) /\ ~Includes(selectedCoins, id))
           => id \notin CardIds(selectedContainer)

\* A response rendered whose request was issued with a coin selected that
\* had been removed by the time it resolved.
C18_Witness ==
  /\ lastOp = "render"
  /\ selectedContainer # <<>>
  /\ \E id \in Coins :
       /\ Includes(resolved.sel, id)
       /\ ~Includes(selectedCoins, id)
       /\ id \notin CardIds(selectedContainer)

\* The three regions agree with the selection and the preferences: the
\* compare button is enabled exactly with 5 coins selected, the selected
\* region holds the cards of exactly the fetched coins that are selected,
\* and the cards of both regions have the 24h line exactly if show24h is set.
Consistent ==
  /\ ~compareBtnDisabled <=> Len(selectedCoins) = 5
  /\ CardIds(selectedContainer) = {c \in Coins : Includes(selectedCoins, c)}
  /\ \A k \in 1..Len(cryptoContainer) : cryptoContainer[k].chg <=> Show24h(userPrefs)
  /\ \A k \in 1..Len(selectedContainer) : selectedContainer[k].chg <=> Show24h(userPrefs)

\* The steps excluded once the user has stopped and fetches succeed with
\* well-formed coins: a call of a handler, and a cycle that ends without a
\* complete render.
Disturbances ==
  MutatingOps \cup {"compare"} \cup {"fetchFail", "notArray", "renderThrow"}

\* C19: in every run where from some point on no handler is called and no
\* cycle fails or throws while rendering, the regions agree with the
\* selection and the preferences from some point on for ever.
C19_SettlesConsistent ==
  <>[](lastOp \notin Disturbances) => <>[]Consistent

\* Everything issued has settled, the last request to resolve was issued
\* before the user set show24h, and the regions agree with the state.
C19_Witness ==
  /\ lastOp = "render"
  /\ pending = <<>>
  /\ ~resolved.show /\ Show24h(userPrefs)
  /\ Len(selectedCoins) = 5
  /\ cryptoContainer # <<>>
  /\ Consistent

\* C20: whenever no request is in flight and the full-list region holds the
\* cards of a response, that response was requested with the sortOrder the
\* preferences hold now.
C20_ListMatchesSortOrder ==
  (phase = "running" /\ pending = <<>> /\ cryptoContainer # <<>>)
    => /\ renderedReq = OrderText(userPrefs)
       /\ IdsOf(cryptoContainer)
            = SubSeq(Listing(OrderText(userPrefs)), 1, Len(cryptoContainer))

====
